---- MODULE Spec2Model ----
(***************************************************************************)
(* rkyv_intern: the Interner (src/src/interner.rs) and the                 *)
(* serialize_interned driver (src/src/lib.rs) as a state machine.          *)
(*                                                                         *)
(*   Spec     the Interning trait of Interner called directly, in any      *)
(*            order: start_interning and finish_interning.                 *)
(*   SpecSer  the Interner driven only through serialize_interned, with    *)
(*            the nested calls a payload's serialization makes.            *)
(*   SpecSerFair  SpecSer with the progress a synchronous call chain has.  *)
(***************************************************************************)
EXTENDS Integers, Sequences, FiniteSets, TLC

\* ------------------------------------------------------------------ bounds
\* Distinct values (by Eq) that are offered to the interner.
NumValues == 2
\* Range of the 64-bit hash, scaled down so that distinct values collide.
NumHashes == 1
\* Width of usize, scaled down; the arithmetic below is modulo 2^UsizeBits.
UsizeBits == 2
\* start_interning calls per value (caps the call counters).
MaxOffers == 2
\* Nested serialize_interned calls one payload serialization makes.
MaxChildren == 2
\* Capacity of the writer, in payloads. A buffer never holds usize::MAX bytes,
\* so the positions the writer reports stay below UsizeMax.
MaxOut == 3

Values == 1..NumValues
\* The types T for which Interner<String> is an Interning<T>: the key type
\* itself (Intern on a String field) and its borrowed form (DerefIntern and
\* BorrowIntern<str> on a String field).
Types == {"String", "str"}
UsizeModulus == 2^UsizeBits
UsizeMax == UsizeModulus - 1
Usize == 0..UsizeMax

\* Option<T>
None == <<>>
Some(x) == <<x>>
IsSome(o) == o # None
Unwrapped(o) == o[1]

\* ---------------------------------------------------------------- interner
VARIABLES
    value_to_pos,  \* Interner.value_to_pos: key -> Entry, on the keys inserted
    stack,         \* serialize_interned calls in progress (Started, not returned)
    err,           \* the error being propagated by `?`, or None
    out,           \* the writer: the payloads written, out[i] at position i-1
    ev,            \* the call that ran last, with its arguments and result
    offers,        \* per value: start_interning calls made with it
    starts,        \* per value: how many of them returned Started
    fin,           \* per value: the position given to the finish that returned Ok
    retPos,        \* per value: the positions serialize_interned returned as Ok
    failed,        \* some serialize_interned call has returned an error or panicked
    resolved,      \* the Ok returns of serialize_interned: <<value, type, position>>
    broken,        \* the values whose payload serialization returned an error
    aborted        \* a call nested in the calls in progress has returned an error

vars == <<value_to_pos, stack, err, out, ev, offers, starts, fin, retPos, failed,
          resolved, broken, aborted>>

\* Entry { pos, ref_cnt }
Entry(pos, ref_cnt) == [pos |-> pos, ref_cnt |-> ref_cnt]

\* BuildHasher::hash_one as the interner's hasher computes it: a function of
\* the value alone, with collisions.
hash_one(value) == value % NumHashes

\* NonZeroUsize::new
NonZeroUsize_new(n) == IF n = 0 THEN None ELSE Some(n)

\* `pos + 1` on usize. A build with overflow checks panics where this wraps to
\* 0; one without them wraps, and NonZeroUsize::new(0).unwrap() panics: the
\* outcome is the same panic in both, taken in finish_interning below.
PosPlusOne(pos) == (pos + 1) % UsizeModulus

\* `pos.get() - 1`
PosGetMinusOne_leak(nz) == nz
PosGetMinusOne(nz) == nz - 1

\* raw_entry_mut().from_key_hashed_nocheck(hash, value): the keys of the map
\* stored under `hash` that are equal to `value` (none: Vacant).
from_key_hashed_nocheck_hashonly(map, hash, value) ==
    {k \in DOMAIN map : hash_one(k) = hash}
from_key_hashed_nocheck(map, hash, value) ==
    {k \in DOMAIN map : hash_one(k) = hash /\ k = value}

\* RawVacantEntryMut::insert / the map with map[key] = entry
MapInsert(map, key, entry) ==
    [k \in DOMAIN map \cup {key} |-> IF k = key THEN entry ELSE map[k]]

\* The result of a call: the new map, the variant returned, its payload.
Outcome(map, res, rpos, hash) == [map |-> map, res |-> res, rpos |-> rpos, hash |-> hash]

\* Interner::start_interning
start_interning_restart(map, value) ==
    LET hash == hash_one(value)
        found == from_key_hashed_nocheck(map, hash, value)
    IN  IF found # {} /\ IsSome(map[CHOOSE k \in found : TRUE].pos)
        THEN LET key == CHOOSE k \in found : TRUE
                 entry == map[key]
             IN  Outcome(MapInsert(map, key, Entry(entry.pos, entry.ref_cnt + 1)),
                         "Finished", PosGetMinusOne(Unwrapped(entry.pos)), hash)
        ELSE Outcome(MapInsert(map, value, Entry(None, 1)), "Started", 0, hash)
start_interning_nocount(map, value) ==
    LET hash == hash_one(value)
        found == from_key_hashed_nocheck(map, hash, value)
    IN  IF found # {}
        THEN LET entry == map[CHOOSE k \in found : TRUE]
             IN  IF entry.pos = None
                 THEN Outcome(map, "Pending", 0, hash)
                 ELSE Outcome(map, "Finished", PosGetMinusOne(Unwrapped(entry.pos)), hash)
        ELSE Outcome(MapInsert(map, value, Entry(None, 1)), "Started", 0, hash)
start_interning(map, value) ==
    LET hash == hash_one(value)
        found == from_key_hashed_nocheck(map, hash, value)
    IN  IF found # {}
        THEN \* Occupied
             LET key == CHOOSE k \in found : TRUE
                 entry == map[key]
             IN  IF entry.ref_cnt = UsizeMax
                 THEN \* checked_add(1).unwrap()
                      Outcome(map, "Panic", 0, hash)
                 ELSE LET map2 == MapInsert(map, key, Entry(entry.pos, entry.ref_cnt + 1))
                      IN  IF entry.pos = None
                          THEN Outcome(map2, "Pending", 0, hash)
                          ELSE Outcome(map2, "Finished",
                                       PosGetMinusOne(Unwrapped(entry.pos)), hash)
        ELSE \* Vacant
             Outcome(MapInsert(map, value, Entry(None, 1)), "Started", 0, hash)

\* Interner::finish_interning, state = <<value, hash>>
finish_interning_overwrite(map, state, pos) ==
    LET found == from_key_hashed_nocheck(map, state[2], state[1])
    IN  IF found # {}
        THEN LET key == CHOOSE k \in found : TRUE
                 nz == NonZeroUsize_new(PosPlusOne(pos))
             IN  IF nz = None
                 THEN Outcome(map, "Panic", 0, state[2])
                 ELSE Outcome(MapInsert(map, key, Entry(nz, map[key].ref_cnt)),
                              "Ok", 0, state[2])
        ELSE Outcome(map, "NotStarted", 0, state[2])
finish_interning_insert(map, state, pos) ==
    LET found == from_key_hashed_nocheck(map, state[2], state[1])
        nz == NonZeroUsize_new(PosPlusOne(pos))
    IN  IF found # {} /\ IsSome(map[CHOOSE k \in found : TRUE].pos)
        THEN Outcome(map, "AlreadyFinished", 0, state[2])
        ELSE IF nz = None
             THEN Outcome(map, "Panic", 0, state[2])
             ELSE Outcome(MapInsert(map, state[1], Entry(nz, 1)), "Ok", 0, state[2])
finish_interning_clobber(map, state, pos) ==
    LET found == from_key_hashed_nocheck(map, state[2], state[1])
        nz == NonZeroUsize_new(PosPlusOne(pos))
    IN  IF found # {}
        THEN LET key == CHOOSE k \in found : TRUE
                 entry == map[key]
             IN  IF nz = None
                 THEN Outcome(map, "Panic", 0, state[2])
                 ELSE Outcome(MapInsert(map, key, Entry(nz, entry.ref_cnt)),
                              IF IsSome(entry.pos) THEN "AlreadyFinished" ELSE "Ok",
                              0, state[2])
        ELSE Outcome(map, "NotStarted", 0, state[2])
finish_interning_forget(map, state, pos) ==
    LET found == from_key_hashed_nocheck(map, state[2], state[1])
    IN  IF found # {}
        THEN IF IsSome(map[CHOOSE k \in found : TRUE].pos)
             THEN Outcome(map, "AlreadyFinished", 0, state[2])
             ELSE Outcome(map, "Ok", 0, state[2])
        ELSE Outcome(map, "NotStarted", 0, state[2])
finish_interning(map, state, pos) ==
    LET found == from_key_hashed_nocheck(map, state[2], state[1])
    IN  IF found # {}
        THEN \* Occupied
             LET key == CHOOSE k \in found : TRUE
                 entry == map[key]
             IN  IF IsSome(entry.pos)
                 THEN Outcome(map, "AlreadyFinished", 0, state[2])
                 ELSE LET nz == NonZeroUsize_new(PosPlusOne(pos))
                      IN  IF nz = None
                          THEN \* .unwrap() of None, before the assignment
                               Outcome(map, "Panic", 0, state[2])
                          ELSE Outcome(MapInsert(map, key, Entry(nz, entry.ref_cnt)),
                                       "Ok", 0, state[2])
        ELSE \* Vacant
             Outcome(map, "NotStarted", 0, state[2])

\* The number of times start_interning(value) hashes its value: hash_one on
\* the borrowed value, and on a miss RawVacantEntryMut::insert(key, entry),
\* which hashes the owned copy it is given (insert_hashed_nocheck is the
\* variant that takes the hash).
start_interning_hashes(map, value) ==
    LET found == from_key_hashed_nocheck(map, hash_one(value), value)
    IN  1 + (IF found = {} THEN 1 ELSE 0)

\* The number of times finish_interning hashes: the lookup takes state's hash.
finish_interning_hashes(map, state) == 0

\* Interner::len
len == Cardinality(DOMAIN value_to_pos)

\* The record of a call: operation, value, position argument, result.
Event(op, value, pos, res, rpos) ==
    [op |-> op, value |-> value, pos |-> pos, res |-> res, rpos |-> rpos]

Bump(f, v) == [f EXCEPT ![v] = @ + 1]

\* Interner::new, an empty writer, nothing in progress.
Init ==
    /\ value_to_pos = <<>>
    /\ stack = <<>>
    /\ err = None
    /\ out = <<>>
    /\ ev = Event("new", 0, 0, "none", 0)
    /\ offers = [v \in Values |-> 0]
    /\ starts = [v \in Values |-> 0]
    /\ fin = [v \in Values |-> None]
    /\ retPos = [v \in Values |-> {}]
    /\ failed = FALSE
    /\ resolved = {}
    /\ broken = {}
    /\ aborted = FALSE

\* ------------------------------------------------- the trait, called directly
\* A caller calls start_interning(value).
StartInterning(value) ==
    /\ offers[value] < MaxOffers
    /\ LET r == start_interning(value_to_pos, value)
       IN  /\ value_to_pos' = r.map
           /\ ev' = Event("start_interning", value, 0, r.res, r.rpos)
           /\ starts' = IF r.res = "Started" THEN Bump(starts, value) ELSE starts
    /\ offers' = Bump(offers, value)
    /\ UNCHANGED <<stack, err, out, fin, retPos, failed, resolved, broken, aborted>>

\* A caller calls finish_interning((value, hash_one(value)), pos): the state a
\* start_interning(value) hands out, of this interner or of one with the same
\* hasher.
FinishInterning(value, pos) ==
    /\ LET r == finish_interning(value_to_pos, <<value, hash_one(value)>>, pos)
       IN  /\ value_to_pos' = r.map
           /\ ev' = Event("finish_interning", value, pos, r.res, 0)
           /\ fin' = IF r.res = "Ok" THEN [fin EXCEPT ![value] = Some(pos)] ELSE fin
    /\ UNCHANGED <<stack, err, out, offers, starts, retPos, failed, resolved, broken, aborted>>

Next ==
    \/ \E value \in Values : StartInterning(value)
    \/ \E value \in Values, pos \in Usize : FinishInterning(value, pos)

Spec == Init /\ [][Next]_vars

\* --------------------------------------------- InterningExt::serialize_interned
\* A call in progress: start_interning returned Started(state) and the value's
\* serialize_unsized is running; idx counts the nested calls it has made.
Frame(value, ty, hash, idx) == [value |-> value, ty |-> ty, hash |-> hash, idx |-> idx]

\* What the writer holds at a position: the archived form of `value` that
\* <ty as SerializeUnsized>::serialize_unsized writes (an ArchivedString for
\* String, the bytes of the str for str); value 0 is data that is not interned.
Payload(value, ty) == [value |-> value, ty |-> ty]

Top == stack[Len(stack)]
Popped == SubSeq(stack, 1, Len(stack) - 1)
\* The values whose serialize_interned call has started and not returned.
InProgress == {stack[i].value : i \in 1..Len(stack)}
\* An error returned by the outermost call reaches the user; below it, `?`
\* hands it to the enclosing call.
Propagated(rest, kind) == IF rest = <<>> THEN None ELSE Some(kind)

\* serialize_interned(value) is called, by the user (nothing in progress) or by
\* the payload serialization of the innermost call in progress. It runs
\* start_interning and, on Pending or Finished, returns at once.
SerializeInterned_nocycle(value, ty) ==
    /\ err = None
    /\ offers[value] < MaxOffers
    /\ stack # <<>> => Top.idx < MaxChildren
    /\ LET r == start_interning(value_to_pos, value)
           callers == IF stack = <<>> THEN stack
                      ELSE [stack EXCEPT ![Len(stack)].idx = @ + 1]
       IN  /\ value_to_pos' = r.map
           /\ ev' = Event("serialize_interned", value, 0, r.res, r.rpos)
           /\ starts' = IF r.res = "Started" THEN Bump(starts, value) ELSE starts
           /\ IF r.res = "Finished"
              THEN /\ stack' = callers
                   /\ retPos' = [retPos EXCEPT ![value] = @ \cup {r.rpos}]
                   /\ resolved' = resolved \cup {<<value, ty, r.rpos>>}
              ELSE /\ stack' = Append(callers, Frame(value, ty, r.hash, 0))
                   /\ UNCHANGED <<retPos, resolved>>
           /\ UNCHANGED <<err, failed, aborted>>
    /\ offers' = Bump(offers, value)
    /\ UNCHANGED <<out, fin, broken>>
SerializeInterned_rewrite(value, ty) ==
    /\ err = None
    /\ offers[value] < MaxOffers
    /\ stack # <<>> => Top.idx < MaxChildren
    /\ LET r == start_interning(value_to_pos, value)
           callers == IF stack = <<>> THEN stack
                      ELSE [stack EXCEPT ![Len(stack)].idx = @ + 1]
       IN  /\ value_to_pos' = r.map
           /\ ev' = Event("serialize_interned", value, 0, r.res, r.rpos)
           /\ starts' = IF r.res = "Started" THEN Bump(starts, value) ELSE starts
           /\ CASE r.res = "Started" ->
                     /\ stack' = Append(callers, Frame(value, ty, r.hash, 0))
                     /\ UNCHANGED <<err, failed, retPos, resolved, aborted, out>>
                [] r.res = "Finished" /\ Len(out) < MaxOut ->
                     /\ stack' = callers
                     /\ out' = Append(out, Payload(value, ty))
                     /\ retPos' = [retPos EXCEPT ![value] = @ \cup {Len(out)}]
                     /\ resolved' = resolved \cup {<<value, ty, Len(out)>>}
                     /\ UNCHANGED <<err, failed, aborted>>
                [] OTHER ->
                     /\ stack' = callers
                     /\ err' = Propagated(callers, "CyclicInternedValue")
                     /\ failed' = TRUE
                     /\ aborted' = (callers # <<>>)
                     /\ UNCHANGED <<retPos, resolved, out>>
    /\ offers' = Bump(offers, value)
    /\ UNCHANGED <<fin, broken>>
SerializeInterned(value, ty) ==
    /\ err = None
    /\ offers[value] < MaxOffers
    /\ stack # <<>> => Top.idx < MaxChildren
    /\ LET r == start_interning(value_to_pos, value)
           callers == IF stack = <<>> THEN stack
                      ELSE [stack EXCEPT ![Len(stack)].idx = @ + 1]
       IN  /\ value_to_pos' = r.map
           /\ ev' = Event("serialize_interned", value, 0, r.res, r.rpos)
           /\ starts' = IF r.res = "Started" THEN Bump(starts, value) ELSE starts
           /\ CASE r.res = "Started" ->
                     \* value.serialize_unsized(self) begins
                     /\ stack' = Append(callers, Frame(value, ty, r.hash, 0))
                     /\ UNCHANGED <<err, failed, retPos, resolved, aborted>>
                [] r.res = "Pending" ->
                     \* fail!(CyclicInternedValueError)
                     /\ stack' = callers
                     /\ err' = Propagated(callers, "CyclicInternedValue")
                     /\ failed' = TRUE
                     /\ aborted' = (callers # <<>>)
                     /\ UNCHANGED <<retPos, resolved>>
                [] r.res = "Finished" ->
                     \* Ok(pos)
                     /\ stack' = callers
                     /\ retPos' = [retPos EXCEPT ![value] = @ \cup {r.rpos}]
                     /\ resolved' = resolved \cup {<<value, ty, r.rpos>>}
                     /\ UNCHANGED <<err, failed, aborted>>
                [] OTHER ->
                     \* start_interning panicked
                     /\ stack' = callers
                     /\ err' = Propagated(callers, "Panic")
                     /\ failed' = TRUE
                     /\ aborted' = (callers # <<>>)
                     /\ UNCHANGED <<retPos, resolved>>
    /\ offers' = Bump(offers, value)
    /\ UNCHANGED <<out, fin, broken>>

\* The payload serialization of the innermost call completes: it writes the
\* payload and returns its position; finish_interning(state, pos)?; Ok(pos).
PayloadDone ==
    /\ err = None
    /\ stack # <<>>
    /\ Len(out) < MaxOut
    /\ LET pos == Len(out)
           r == finish_interning(value_to_pos, <<Top.value, Top.hash>>, pos)
       IN  /\ out' = Append(out, Payload(Top.value, Top.ty))
           /\ value_to_pos' = r.map
           /\ ev' = Event("finish_interning", Top.value, pos, r.res, 0)
           /\ stack' = Popped
           /\ IF r.res = "Ok"
              THEN /\ fin' = [fin EXCEPT ![Top.value] = Some(pos)]
                   /\ retPos' = [retPos EXCEPT ![Top.value] = @ \cup {pos}]
                   /\ resolved' = resolved \cup {<<Top.value, Top.ty, pos>>}
                   /\ UNCHANGED <<err, failed, aborted>>
              ELSE /\ err' = Propagated(Popped, r.res)
                   /\ failed' = TRUE
                   /\ aborted' = (Popped # <<>>)
                   /\ UNCHANGED <<fin, retPos, resolved>>
    /\ UNCHANGED <<offers, starts, broken>>

\* The payload serialization of the innermost call fails (the writer is full,
\* the allocator fails): `?` returns its error, finish_interning is not called.
PayloadFail_finish ==
    /\ err = None
    /\ stack # <<>>
    /\ LET r == finish_interning(value_to_pos, <<Top.value, Top.hash>>, Len(out))
       IN  /\ value_to_pos' = r.map
           /\ fin' = IF r.res = "Ok" THEN [fin EXCEPT ![Top.value] = Some(Len(out))]
                     ELSE fin
    /\ ev' = Event("serialize_unsized", Top.value, 0, "PayloadError", 0)
    /\ stack' = Popped
    /\ err' = Propagated(Popped, "PayloadError")
    /\ failed' = TRUE
    /\ aborted' = (Popped # <<>>)
    /\ broken' = broken \cup {Top.value}
    /\ UNCHANGED <<out, offers, starts, retPos, resolved>>
PayloadFail ==
    /\ err = None
    /\ stack # <<>>
    /\ ev' = Event("serialize_unsized", Top.value, 0, "PayloadError", 0)
    /\ stack' = Popped
    /\ err' = Propagated(Popped, "PayloadError")
    /\ failed' = TRUE
    /\ aborted' = (Popped # <<>>)
    /\ broken' = broken \cup {Top.value}
    /\ UNCHANGED <<value_to_pos, out, offers, starts, fin, retPos, resolved>>

\* An enclosing call receives the error of a nested one: its payload
\* serialization returns it through `?` (lib.rs 180, 245, 337 and the derived
\* Serialize of the enclosing value), and so does serialize_interned.
Unwind_swallow ==
    /\ err # None
    /\ stack # <<>>
    /\ ev' = Event("unwind", Top.value, 0, Unwrapped(err), 0)
    /\ err' = None
    /\ UNCHANGED <<value_to_pos, stack, out, offers, starts, fin, retPos, failed,
                   resolved, broken, aborted>>
Unwind ==
    /\ err # None
    /\ stack # <<>>
    /\ ev' = Event("unwind", Top.value, 0, Unwrapped(err), 0)
    /\ stack' = Popped
    /\ err' = Propagated(Popped, Unwrapped(err))
    /\ aborted' = (Popped # <<>>)
    /\ broken' = broken \cup {Top.value}
    /\ UNCHANGED <<value_to_pos, out, offers, starts, fin, retPos, failed, resolved>>

\* Bytes that are not an interned payload are written (a record, a plain
\* field): payload 0.
WriteOther ==
    /\ err = None
    /\ Len(out) < MaxOut
    /\ out' = Append(out, Payload(0, "bytes"))
    /\ ev' = Event("write", 0, Len(out), "Ok", 0)
    /\ UNCHANGED <<value_to_pos, stack, err, offers, starts, fin, retPos, failed,
                   resolved, broken, aborted>>

\* A step of a serialize_interned call that is in progress.
PassStep ==
    /\ stack # <<>>
    /\ \/ \E value \in Values, ty \in Types : SerializeInterned(value, ty)
       \/ PayloadDone
       \/ PayloadFail
       \/ Unwind

NextSer ==
    \/ \E value \in Values, ty \in Types : SerializeInterned(value, ty)
    \/ PayloadDone
    \/ PayloadFail
    \/ Unwind
    \/ WriteOther

SpecSer == Init /\ [][NextSer]_vars

\* A call is synchronous code: once made, it runs until it returns.
SpecSerFair == SpecSer /\ WF_vars(PassStep)

\* ------------------------------------------------------------------ claims
\* The positions (from 1) of the writer that hold the payload of v.
Written(v) == {i \in 1..Len(out) : out[i].value = v}

\* The nesting depth of serialize_interned calls: those in progress, and the
\* call that has just returned without starting a payload.
Depth ==
    Len(stack) + (IF ev.op = "serialize_interned" /\ ev.res # "Started" THEN 1 ELSE 0)

\* C1 (dedup): as long as no serialize_interned call has failed, the payload
\* of every value is in the stream at most once, written by the call that got
\* Started, exactly once when that call has returned, and every position
\* returned for the value is the one position of that payload.
C1_Dedup ==
    ~failed =>
        \A v \in Values :
            /\ Cardinality(Written(v)) <= 1
            /\ Cardinality(retPos[v]) <= 1
            /\ \A p \in retPos[v] : p + 1 \in Written(v)
            /\ Written(v) # {} => IsSome(fin[v]) /\ Unwrapped(fin[v]) + 1 \in Written(v)
            /\ (starts[v] >= 1 /\ v \notin InProgress) => Cardinality(Written(v)) = 1

\* C1 witness: value 1 was offered twice with value 2 in between, no call
\* failed, all have returned, and the last one got Finished.
C1_Witness ==
    /\ ~failed
    /\ stack = <<>>
    /\ offers[1] = 2
    /\ Written(2) # {}
    /\ retPos[1] # {}
    /\ \E i \in Written(1), j \in Written(2) : i < j
    /\ ev.op = "serialize_interned" /\ ev.value = 1 /\ ev.res = "Finished"

\* C2 (first sighting drives the write): the first start_interning of a value
\* returns Started, and a start_interning made after a finish_interning of
\* that value returned Ok returns Finished with the position given to it.
C2_FirstSighting ==
    ev.op = "start_interning" =>
        /\ offers[ev.value] = 1 => ev.res = "Started"
        /\ IsSome(fin[ev.value]) =>
               ev.res = "Finished" /\ ev.rpos = Unwrapped(fin[ev.value])

\* C2 witness: a later start_interning of a value finished at a position
\* above 0, with an entry of another value under the same hash.
C2_Witness ==
    /\ ev.op = "start_interning"
    /\ ev.res = "Finished"
    /\ ev.rpos > 0
    /\ offers[ev.value] >= 2
    /\ \E k \in DOMAIN value_to_pos : k # ev.value /\ hash_one(k) = hash_one(ev.value)

\* C3 (mid-flight collision): a start_interning of a value that was offered
\* before and for which no finish_interning has returned Ok returns Pending,
\* and no value gets Started twice.
C3_MidFlightPending ==
    /\ \A v \in Values : starts[v] <= 1
    /\ (ev.op = "start_interning" /\ offers[ev.value] >= 2 /\ fin[ev.value] = None)
           => ev.res = "Pending"

\* C3 witness: a second start_interning before the finish returned Pending.
C3_Witness ==
    /\ ev.op = "start_interning"
    /\ ev.res = "Pending"
    /\ starts[ev.value] = 1
    /\ offers[ev.value] = 2

\* C4 (cycle rejection): a serialize_interned call for a value whose call is
\* in progress gets Pending and fails with CyclicInternedValue, writes
\* nothing, starts no payload, and leaves every recorded position as it was.
C4_CycleRejected ==
    [][ (ev'.op = "serialize_interned" /\ ev'.value \in InProgress) =>
            /\ ev'.res = "Pending"
            /\ err' = Some("CyclicInternedValue")
            /\ failed'
            /\ out' = out
            /\ fin' = fin
            /\ Len(stack') = Len(stack)
            /\ \A k \in DOMAIN value_to_pos : value_to_pos'[k].pos = value_to_pos[k].pos
      ]_vars

\* C4 witness: the cycle goes through another value (1 -> 2 -> 1).
C4_Witness ==
    /\ ev.op = "serialize_interned"
    /\ ev.res = "Pending"
    /\ err = Some("CyclicInternedValue")
    /\ Len(stack) >= 2
    /\ ev.value = stack[1].value
    /\ ev.value # Top.value

\* C5 (termination): the nesting depth never exceeds the number of distinct
\* values plus one, and every call in progress eventually returns.
C5_Terminates ==
    /\ [](Depth <= NumValues + 1)
    /\ (stack # <<>>) ~> (stack = <<>>)

\* C5 witness: every value is in progress and a nested call found a cycle.
C5_Witness ==
    /\ Len(stack) = NumValues
    /\ ev.op = "serialize_interned"
    /\ ev.res = "Pending"
    /\ Depth = NumValues + 1

\* C6 (finish twice): a finish_interning for a value for which an earlier
\* finish_interning returned Ok fails with AlreadyFinished, whatever its
\* position.
C6_AlreadyFinished ==
    [][ (ev'.op = "finish_interning" /\ IsSome(fin[ev'.value])) =>
            ev'.res = "AlreadyFinished" ]_vars

\* C6 witness: the second finish was given another position than the first.
C6_Witness ==
    /\ ev.op = "finish_interning"
    /\ ev.res = "AlreadyFinished"
    /\ IsSome(fin[ev.value])
    /\ ev.pos # Unwrapped(fin[ev.value])

\* C7 (finish without start): a finish_interning for a value that was never
\* offered to start_interning fails with NotStarted.
C7_NotStarted ==
    (ev.op = "finish_interning" /\ offers[ev.value] = 0) => ev.res = "NotStarted"

\* C7 witness: the interner holds an entry of another value under the same
\* hash.
C7_Witness ==
    /\ ev.op = "finish_interning"
    /\ offers[ev.value] = 0
    /\ ev.res = "NotStarted"
    /\ \E k \in DOMAIN value_to_pos : hash_one(k) = hash_one(ev.value)

\* C8 (the encoding never leaks, over all of usize), as claimed: a
\* finish_interning on a pending entry returns Ok for every position, and a
\* later start_interning returns Finished with exactly that position.
C8_AllPositions ==
    [][ /\ (/\ ev'.op = "finish_interning"
            /\ ev'.value \in DOMAIN value_to_pos
            /\ value_to_pos[ev'.value].pos = None)
           => ev'.res = "Ok"
        /\ (ev'.op = "start_interning" /\ IsSome(fin[ev'.value]))
           => ev'.res = "Finished" /\ ev'.rpos = Unwrapped(fin[ev'.value])
      ]_vars

\* C9 (position zero is not absent): once finish_interning(state, 0) returned
\* Ok for a value, its entry holds a position, and start_interning returns
\* Finished(0).
C9_ZeroIsPresent ==
    \A v \in Values :
        fin[v] = Some(0) =>
            /\ v \in DOMAIN value_to_pos
            /\ IsSome(value_to_pos[v].pos)
            /\ (ev.op = "start_interning" /\ ev.value = v)
                   => ev.res = "Finished" /\ ev.rpos = 0

\* C9 witness: start_interning after a finish at position 0.
C9_Witness ==
    /\ ev.op = "start_interning"
    /\ fin[ev.value] = Some(0)
    /\ ev.res = "Finished"

\* C10 (write-once position): an entry is created with its position absent;
\* a position that is present stays, with its value; no entry is removed.
C10_WriteOnce ==
    [][ /\ \A k \in DOMAIN value_to_pos :
               /\ k \in DOMAIN value_to_pos'
               /\ IsSome(value_to_pos[k].pos) => value_to_pos'[k].pos = value_to_pos[k].pos
        /\ \A k \in DOMAIN value_to_pos' \ DOMAIN value_to_pos :
               value_to_pos'[k].pos = None
      ]_vars

\* C10 witness: a failing finish_interning with another position, and a later
\* start_interning, have left a recorded position in place.
C10_Witness ==
    /\ ev.op = "finish_interning"
    /\ ev.res = "AlreadyFinished"
    /\ offers[ev.value] >= 2
    /\ value_to_pos[ev.value].pos # Some(PosPlusOne(ev.pos))

\* The values that have been passed to start_interning.
Offered == {v \in Values : offers[v] >= 1}

\* The entries whose position is absent.
PendingKeys == {k \in DOMAIN value_to_pos : value_to_pos[k].pos = None}

\* What reading the archived value at `pos` as the archived form of `ty`
\* yields: the value written there when it was written as `ty`; otherwise the
\* bytes of another form are read as `ty`, and anything may come out.
Decoded(pos, ty) ==
    IF pos < Len(out) /\ out[pos + 1].ty = ty
    THEN {out[pos + 1].value}
    ELSE 0..NumValues

\* C11 (no eviction): the keys of the interner are exactly the values passed
\* to start_interning, len() is their number, and no step removes a key.
C11_NoEviction ==
    /\ [](DOMAIN value_to_pos = Offered /\ len = Cardinality(Offered))
    /\ [][DOMAIN value_to_pos \subseteq DOMAIN value_to_pos' /\ len' >= len]_vars

\* C11 witness: two values offered, one of them twice, and a failing finish.
C11_Witness ==
    /\ len = 2
    /\ \E v \in Values : offers[v] = 2
    /\ ev.op = "finish_interning"
    /\ ev.res = "AlreadyFinished"

\* C12 (payload failure): when the payload serialization of a value returns
\* an error, serialize_interned returns that error and leaves the interner as
\* it was (no finish_interning); the entry of such a value has no position
\* ever after, and every later serialize_interned of it gets Pending.
C12_PayloadError ==
    /\ [](\A v \in broken :
              /\ v \in PendingKeys
              /\ fin[v] = None
              /\ (ev.op = "serialize_interned" /\ ev.value = v) => ev.res = "Pending")
    /\ [][ (ev'.op = "serialize_unsized" \/ ev'.op = "unwind") =>
               /\ value_to_pos' = value_to_pos
               /\ fin' = fin
               /\ failed'
               /\ ev'.value \in broken'
               /\ err' = Propagated(stack', ev'.res)
               /\ ev'.op = "serialize_unsized" => ev'.res = "PayloadError"
               /\ ev'.op = "unwind" => ev'.res = Unwrapped(err)
         ]_vars

\* C12 witness: a value whose payload failed was offered again, at top level.
C12_Witness ==
    /\ ev.op = "serialize_interned"
    /\ ev.value \in broken
    /\ ev.res = "Pending"
    /\ stack = <<>>
    /\ \E v \in Values : IsSome(fin[v])

\* C13 (Finished short-circuit): a serialize_interned call whose
\* start_interning returns Finished(p) returns Ok(p), p being the recorded
\* position, starts no payload serialization, leaves the writer and every
\* recorded position as they were, and raises no error.
C13_FinishedShortCircuit ==
    [][ (ev'.op = "serialize_interned" /\ ev'.res = "Finished") =>
            /\ out' = out
            /\ Len(stack') = Len(stack)
            /\ fin' = fin
            /\ \A k \in DOMAIN value_to_pos : value_to_pos'[k].pos = value_to_pos[k].pos
            /\ ev'.rpos = Unwrapped(fin[ev'.value])
            /\ retPos'[ev'.value] = retPos[ev'.value] \cup {ev'.rpos}
            /\ err' = err
            /\ failed' = failed
      ]_vars

\* C13 witness: a nested call got Finished after other data was written.
C13_Witness ==
    /\ ev.op = "serialize_interned"
    /\ ev.res = "Finished"
    /\ stack # <<>>
    /\ Len(out) >= 2
    /\ ev.rpos < Len(out) - 1

\* C14 (round trip), as claimed: every position returned for a field holds
\* the payload of that field's value, and decoding it yields that value.
C14_RoundTrip ==
    \A r \in resolved :
        /\ r[3] < Len(out)
        /\ out[r[3] + 1].value = r[1]
        /\ Decoded(r[3], r[2]) = {r[1]}

\* C15 (hash once), as claimed: start_interning hashes its value exactly once
\* whatever the outcome, and finish_interning hashes nothing.
C15_HashOnce ==
    [][ /\ ev'.op = "start_interning" =>
               start_interning_hashes(value_to_pos, ev'.value) = 1
        /\ ev'.op = "finish_interning" =>
               finish_interning_hashes(value_to_pos, <<ev'.value, hash_one(ev'.value)>>) = 0
      ]_vars

\* C16 (errors abort the pass): once a nested call has returned an error, the
\* only steps until the outermost call has returned are the enclosing calls
\* returning that error, innermost first: nothing is written, no
\* finish_interning runs and no entry gets a position.
C16_ErrorsAbort ==
    /\ [](aborted => failed /\ stack # <<>> /\ IsSome(err))
    /\ [][ aborted =>
               /\ ev'.op = "unwind"
               /\ stack' = Popped
               /\ ev'.res = Unwrapped(err)
               /\ err' = Propagated(Popped, Unwrapped(err))
               /\ out' = out
               /\ fin' = fin
               /\ value_to_pos' = value_to_pos
         ]_vars

\* C16 witness: the outermost of two enclosing calls has returned the
\* CyclicInternedValue error of a nested call.
C16_Witness ==
    /\ ev.op = "unwind"
    /\ ev.res = "CyclicInternedValue"
    /\ stack = <<>>
    /\ ~aborted
    /\ Cardinality(broken) >= 2

\* C17 (start on an existing entry): start_interning of a value that has an
\* entry returns Pending or Finished, adds no key, changes no position and
\* changes no other entry.
C17_OccupiedFrame ==
    [][ (ev'.op = "start_interning" /\ ev'.value \in DOMAIN value_to_pos) =>
            /\ ev'.res \in {"Pending", "Finished"}
            /\ DOMAIN value_to_pos' = DOMAIN value_to_pos
            /\ \A k \in DOMAIN value_to_pos :
                   /\ value_to_pos'[k].pos = value_to_pos[k].pos
                   /\ k # ev'.value => value_to_pos'[k] = value_to_pos[k]
      ]_vars

\* C17 witness: Finished for one of two entries.
C17_Witness ==
    /\ ev.op = "start_interning"
    /\ ev.res = "Finished"
    /\ len = 2

\* C18 (reference count): the ref_cnt of every entry is the number of
\* start_interning calls made with its key; finish_interning, which makes no
\* such call, leaves it alone.
C18_RefCount ==
    /\ \A k \in DOMAIN value_to_pos : value_to_pos[k].ref_cnt = offers[k]
    /\ \A v \in Offered : v \in DOMAIN value_to_pos

\* C18 witness: a finish_interning returned Ok on an entry offered twice.
C18_Witness ==
    /\ ev.op = "finish_interning"
    /\ ev.res = "Ok"
    /\ value_to_pos[ev.value].ref_cnt = 2

\* C19 (pending is in progress): as long as no serialize_interned call has
\* failed, the entries without a position are exactly the values whose call
\* is in progress; so none is left when the outermost call has returned.
C19_PendingIsInProgress ==
    ~failed => PendingKeys = InProgress

\* C19 witness: an outermost call with a nested one has returned Ok.
C19_Witness ==
    /\ ~failed
    /\ stack = <<>>
    /\ len = 2
    /\ ev.op = "finish_interning"
    /\ ev.res = "Ok"
    /\ ev.pos >= 1

\* C20 (finish never fails in the driver): every finish_interning that
\* serialize_interned makes returns Ok, and it is the first one for its value,
\* made by the one call that got Started for it.
C20_FinishNeverFails ==
    [][ ev'.op = "finish_interning" =>
            /\ ev'.res = "Ok"
            /\ fin[ev'.value] = None
            /\ starts[ev'.value] = 1
            /\ stack # <<>>
            /\ ev'.value = Top.value
      ]_vars

\* C20 witness: the finish of a nested call, its caller still in progress.
C20_Witness ==
    /\ ev.op = "finish_interning"
    /\ ev.res = "Ok"
    /\ stack # <<>>
    /\ ev.pos >= 1

\* C21 (one projection per payload), as claimed: every position returned to
\* an occurrence is that of a payload written in the archived form of the
\* occurrence's own type.
C21_OwnProjection ==
    \A r \in resolved :
        r[3] < Len(out) => out[r[3] + 1].ty = r[2]

\* C22 (a failing finish changes nothing): a finish_interning that returns
\* AlreadyFinished or NotStarted leaves value_to_pos as it was: no entry
\* added or removed, no position and no count changed.
C22_FailedFinishNoChange ==
    [][ (ev'.op = "finish_interning" /\ ev'.res \in {"AlreadyFinished", "NotStarted"}) =>
            value_to_pos' = value_to_pos ]_vars

\* C22 witness: a finish with another position than the recorded one has
\* failed while another entry is still without a position, and the recorded
\* position is the one of the finish that returned Ok.
C22_Witness ==
    /\ ev.op = "finish_interning"
    /\ ev.res = "AlreadyFinished"
    /\ IsSome(fin[ev.value])
    /\ ev.pos # Unwrapped(fin[ev.value])
    /\ value_to_pos[ev.value].pos = Some(PosPlusOne(Unwrapped(fin[ev.value])))
    /\ PendingKeys # {}

====
